---- MODULE Spec2Model ----
(***************************************************************************)
(* Model of experiments/data_embedding/instructor_embedding_instruction.py *)
(* : the joblib-cached get_dataset_embedding, the per-file pipeline        *)
(* get_dataset_embeddings, and main() (argument checks, grouping by KMeans *)
(* or by nearest query, label checks, plotting).                           *)
(*                                                                         *)
(* External collaborators (INSTRUCTOR.encode, KMeans, TSNE, cos_sim,       *)
(* joblib.Memory, datasets) are modelled by their contracts: vectors are   *)
(* small integer pairs, an embedding row remembers which (instruction,     *)
(* text) pair, which model handle and which batch size produced it.        *)
(***************************************************************************)
EXTENDS Integers, Sequences, FiniteSets, TLC

VARIABLES
    cache,          \* MEM: the persistent joblib store, a set of [key, val]
    encodeCalls,    \* bag of the model.encode calls made inside get_dataset_embedding
    call,           \* the last direct get_dataset_embedding call and its outcome
    returned,       \* every (request, matrix) a get_dataset_embedding call returned
    ncalls,         \* number of direct calls made
    args,           \* main: the parsed Args
    pc,             \* main: position in main()
    method,         \* main: "cluster" | "query"
    model,          \* main: the loaded INSTRUCTOR handle, or None
    all_datasets,   \* get_dataset_embeddings: list of per-file datasets
    all_embeddings, \* get_dataset_embeddings: list of per-file matrices
    dataset,        \* main: concatenated dataset
    embeddings,     \* main: concatenated embedding matrix
    labels,         \* main: label array (0-based labels, 1-based positions)
    n_clusters,     \* main: local n_clusters (number of groups)
    plot,           \* matplotlib: the sequence of drawing calls made
    err             \* the exception that ended main(), or None

vars == <<cache, encodeCalls, call, returned, ncalls, args, pc, method, model,
          all_datasets, all_embeddings, dataset, embeddings, labels,
          n_clusters, plot, err>>

cacheVars == <<cache, encodeCalls, call, returned, ncalls>>
mainVars == <<args, pc, method, model, all_datasets, all_embeddings, dataset,
              embeddings, labels, n_clusters, plot, err>>

None == "None"

\* An Optional[int]: None is the empty tuple, the integer k is <<k>>.
NoInt == << >>
Int1(k) == <<k>>

-----------------------------------------------------------------------------
(* Bounds of the model *)

MaxCalls == 2
MaxFiles == 2
MaxQueries == 3
MaxClusters == 3

-----------------------------------------------------------------------------
(* Data *)

ModelKeys == {"instructor-large", "instructor-base"}

EmbeddingModes == {"seed", "problem", "solution", "problem-solution"}

\* A mode string outside the Literal: the cast() of line 92 and the type
\* annotations do not exclude it at run time.
AnyModes == EmbeddingModes \cup {"bogus"}

Instructions == {"Represent the code", "Represent the text"}

BatchSizes == {1, 32}

Item1 == [seed |-> "s1", problem |-> "p1", solution |-> "t1"]
Item2 == [seed |-> "s2", problem |-> "p2", solution |-> "t2"]
Item3 == [seed |-> "s3", problem |-> "p3", solution |-> "t3"]

\* The modes direct callers pass: a recognised one and an unrecognised one
\* (main() below runs all of them).
CallModes == {"problem", "bogus"}

\* Datasets a direct caller may pass (the empty one included).
Datasets == {<< >>, <<Item1, Item2>>}

\* A call either returns a value or raises.
Return(v) == [ok |-> TRUE, val |-> v]
Raise(kind) == [ok |-> FALSE, raised |-> kind]

\* SRC_INSTRUCT_ILLUSTRATION_PROMPT.format(problem=..., solution=...)
FormatPrompt(problem, solution) == "[Problem]" \o problem \o "[Solution]" \o solution

\* map_fn, lines 46-59: the text of the mode, paired with the instruction.
map_fn(embedding_mode, instruction, example) ==
    IF embedding_mode = "seed" THEN Return(<<instruction, example.seed>>)
    ELSE IF embedding_mode = "problem" THEN Return(<<instruction, example.problem>>)
    ELSE IF embedding_mode = "solution" THEN Return(<<instruction, example.solution>>)
    ELSE IF embedding_mode = "problem-solution"
         THEN Return(<<instruction, FormatPrompt(example.problem, example.solution)>>)
    ELSE Raise("AssertionError")

\* dataset.map(map_fn) followed by to_dict()["pair"]: map_fn applied to every
\* example in order; the first raise aborts. Nothing is applied to an empty
\* dataset.
RECURSIVE MapPairs(_, _, _)
MapPairs(embedding_mode, instruction, ds) ==
    IF ds = << >> THEN Return(<< >>)
    ELSE LET first == map_fn(embedding_mode, instruction, Head(ds))
         IN IF ~first.ok THEN first
            ELSE LET rest == MapPairs(embedding_mode, instruction, Tail(ds))
                 IN IF ~rest.ok THEN rest ELSE Return(<<first.val>> \o rest.val)

\* What an empty dataset does at lines 61-62 depends on the datasets library:
\* map() may return the dataset without a "pair" column (KeyError at line 62)
\* or an empty "pair" column (encode is called with no sentence).
EmptyMapOutcomes == {"KeyError", "encode"}

\* The choices the collaborators make in one call: what map() does with an
\* empty dataset, and how many rows encode() loses. INSTRUCTOR.encode returns
\* one row per sentence, so a collaborator that keeps its contract loses 0.
Collaborators == [empty : EmptyMapOutcomes, lost : {0}]
FaultyCollaborators == [empty : EmptyMapOutcomes, lost : {0, 1}]

\* What map() does with an empty dataset only matters for an empty dataset.
CollaboratorsFor(ds) ==
    IF ds = << >> THEN Collaborators ELSE {[empty |-> "KeyError", lost |-> 0]}

Min(a, b) == IF a < b THEN a ELSE b

\* model.encode(sentences, batch_size), line 63: one row per sentence, in
\* order (less the rows a faulty encoder loses). A row records what produced
\* it; its numeric value is Vec(row).
EncodeReversed(handle, sentences, batch_size, lost) ==
    [i \in 1..(Len(sentences) - Min(lost, Len(sentences))) |->
        [pair |-> sentences[Len(sentences) + 1 - i], model |-> handle,
         bs |-> batch_size]]

Encode(handle, sentences, batch_size, lost) ==
    [i \in 1..(Len(sentences) - Min(lost, Len(sentences))) |->
        [pair |-> sentences[i], model |-> handle, bs |-> batch_size]]

\* The body of get_dataset_embedding, lines 46-64.
\*   ret: the matrix or the raise;  encoded: whether model.encode was called.
Body(handle, embedding_mode, ds, instruction, batch_size, oracle) ==
    LET sentences == MapPairs(embedding_mode, instruction, ds)
    IN IF ~sentences.ok THEN [ret |-> sentences, encoded |-> FALSE]
       ELSE IF ds = << >> /\ oracle.empty = "KeyError"
            THEN [ret |-> Raise("KeyError"), encoded |-> FALSE]
       ELSE [ret |-> Return(Encode(handle, sentences.val, batch_size, oracle.lost)),
             encoded |-> TRUE]

\* @MEM.cache(ignore=["model", "batch_size"]), line 36: the key is every
\* argument except the ignored ones.
CacheKeyWithBatch(handle, model_name, embedding_mode, ds, instruction, batch_size) ==
    <<model_name, embedding_mode, ds, instruction, batch_size>>

CacheKey(handle, model_name, embedding_mode, ds, instruction, batch_size) ==
    <<model_name, embedding_mode, ds, instruction>>

Stored(c, key) == \E e \in c : e.key = key
Lookup(c, key) == (CHOOSE e \in c : e.key = key).val

\* joblib's cached call: a stored key returns the stored value; otherwise the
\* body runs and, if it returns, its value is stored under the key.
NeverStores(c, key, val) == c

Store(c, key, val) == c \cup {[key |-> key, val |-> val]}

get_dataset_embedding(c, handle, model_name, embedding_mode, ds, instruction, batch_size, oracle) ==
    LET key == CacheKey(handle, model_name, embedding_mode, ds, instruction, batch_size)
    IN IF Stored(c, key)
       THEN [hit |-> TRUE, ret |-> Return(Lookup(c, key)), cache |-> c,
             encoded |-> FALSE]
       ELSE LET r == Body(handle, embedding_mode, ds, instruction, batch_size,
                          oracle)
            IN [hit |-> FALSE, ret |-> r.ret, encoded |-> r.encoded,
                cache |-> IF r.ret.ok THEN Store(c, key, r.ret.val) ELSE c]

\* A bag (request -> number of times) with one more occurrence of req.
Counted(bag, req) ==
    [x \in DOMAIN bag \cup {req} |->
        IF x \in DOMAIN bag THEN (IF x = req THEN bag[x] + 1 ELSE bag[x]) ELSE 1]

Request(handle, model_name, embedding_mode, ds, instruction, batch_size) ==
    [model |-> handle, model_name |-> model_name, embedding_mode |-> embedding_mode,
     dataset |-> ds, instruction |-> instruction, batch_size |-> batch_size]

-----------------------------------------------------------------------------
(* Direct calls of get_dataset_embedding against the persistent cache *)

NoCall == [made |-> FALSE]

\* The module imported, the cache empty, main() not running.
InitCache ==
    /\ cache = {}
    /\ encodeCalls = << >>   \* the empty bag
    /\ call = NoCall
    /\ returned = {}
    /\ ncalls = 0
    /\ args = None /\ pc = "idle" /\ method = None /\ model = None
    /\ all_datasets = << >> /\ all_embeddings = << >>
    /\ dataset = << >> /\ embeddings = << >> /\ labels = << >>
    /\ n_clusters = 0 /\ plot = << >> /\ err = None

CallEmbedding ==
    /\ ncalls < MaxCalls
    /\ \E handle \in ModelKeys, model_name \in ModelKeys, mode \in CallModes,
          ds \in Datasets, instruction \in Instructions, bs \in BatchSizes :
       \E oracle \in CollaboratorsFor(ds) :
          \* _model_name "must be consistent with `model`" (line 39) is a
          \* comment: nothing stops a caller passing another handle.
          LET req == Request(handle, model_name, mode, ds, instruction, bs)
              r == get_dataset_embedding(cache, handle, model_name, mode, ds,
                                         instruction, bs, oracle)
          IN /\ cache' = r.cache
             /\ encodeCalls' = IF r.encoded THEN Counted(encodeCalls, req)
                               ELSE encodeCalls
             /\ call' = [made |-> TRUE, req |-> req, ret |-> r.ret]
             /\ returned' = IF r.ret.ok THEN returned \cup {<<req, r.ret.val>>}
                            ELSE returned
             /\ ncalls' = ncalls + 1
    /\ UNCHANGED mainVars

NextCache == CallEmbedding

SpecCache == InitCache /\ [][NextCache]_vars

-----------------------------------------------------------------------------
(* The numeric side of the collaborators *)

\* The values INSTRUCTOR.encode can produce, as small non-zero integer vectors.
Vectors == << <<1, 0>>, <<0, 1>>, <<1, 1>>, <<-1, 0>>, <<2, 0>>, <<1, -1>>,
              <<0, -1>>, <<-1, 1>> >>

TextCode(text) ==
    CASE text = "s1" -> 0 [] text = "s2" -> 1 [] text = "s3" -> 6
      [] text = "p1" -> 2 [] text = "p2" -> 5 [] text = "p3" -> 3
      [] text = "t1" -> 4 [] text = "t2" -> 4 [] text = "t3" -> 7
      [] text = "sorting" -> 0 [] text = "graphs" -> 5
      [] OTHER -> Len(text)

InstructionCode(instruction) ==
    CASE instruction = "Represent the code" -> 0
      [] instruction = "Represent the text" -> 1
      [] instruction = "Represent the query" -> 2
      [] OTHER -> 3

ModelCode(handle) == IF handle = "instructor-large" THEN 0 ELSE 3

\* The vector the model `handle` gives an (instruction, text) pair: a fixed
\* function of the three, whatever the batch size.
Embed(handle, pair) ==
    Vectors[((TextCode(pair[2]) + InstructionCode(pair[1]) + ModelCode(handle))
             % Len(Vectors)) + 1]

Vec(row) == Embed(row.model, row.pair)

Dot(u, v) == u[1] * v[1] + u[2] * v[2]
SignedSquare(d) == IF d < 0 THEN 0 - d * d ELSE d * d

\* cos_sim(e, q1) < cos_sim(e, q2), line 116, for non-zero vectors:
\* dot(e,q1)/|q1| < dot(e,q2)/|q2|, compared exactly on the signed squares.
CosLess(e, q1, q2) ==
    SignedSquare(Dot(e, q1)) * Dot(q2, q2) < SignedSquare(Dot(e, q2)) * Dot(q1, q1)

\* np.argmax over the similarities of e to the query vectors qs: the 0-based
\* index of the first maximum.
RECURSIVE ArgMaxFrom(_, _, _, _)
ArgMaxLast(e, qs, best, j) ==
    IF j > Len(qs) THEN best - 1
    ELSE ArgMaxFrom(e, qs, IF CosLess(e, qs[j], qs[best]) THEN best ELSE j, j + 1)

ArgMaxFrom(e, qs, best, j) ==
    IF j > Len(qs) THEN best - 1
    ELSE ArgMaxFrom(e, qs, IF CosLess(e, qs[best], qs[j]) THEN j ELSE best, j + 1)

\* get_label, lines 115-119.
get_label(embedding, query_embeddings) ==
    ArgMaxFrom(Vec(embedding), [j \in 1..Len(query_embeddings) |->
                                    Vec(query_embeddings[j])], 1, 2)

Range(f) == {f[i] : i \in DOMAIN f}

RECURSIVE SeqMax(_)
SeqMax(xs) == IF Len(xs) = 1 THEN xs[1]
              ELSE LET m == SeqMax(Tail(xs)) IN IF xs[1] > m THEN xs[1] ELSE m

RECURSIVE SeqMin(_)
SeqMin(xs) == IF Len(xs) = 1 THEN xs[1]
              ELSE LET m == SeqMin(Tail(xs)) IN IF xs[1] < m THEN xs[1] ELSE m

RECURSIVE SeqSum(_)
SeqSum(xs) == IF xs = << >> THEN 0 ELSE xs[1] + SeqSum(Tail(xs))

\* KMeans(n_clusters, random_state=42).fit_predict(X), lines 105-106: fewer
\* samples than clusters is a ValueError; otherwise every sample gets a label
\* in [0, n), equal points get equal labels, and all n labels are used when X
\* has at least n distinct points (with fewer distinct points sklearn warns
\* and returns fewer distinct labels, which ones depending on the centers).
KMeansLabels(X, n) ==
    LET points == {Vec(X[i]) : i \in DOMAIN X}
    IN { [i \in DOMAIN X |-> f[Vec(X[i])]] :
            f \in { g \in [points -> 0..(n - 1)] :
                      Cardinality(points) >= n => Range(g) = 0..(n - 1) } }

\* TSNE(n_components=2, random_state=42, ...).fit_transform(X), lines 128-135:
\* one 2D point per row, a fixed function of the matrix. (The datasets here
\* are a few items long; perplexity and learning rate are tuning knobs that
\* the model leaves out.)
TSNE(X) == [i \in DOMAIN X |-> <<3 * Vec(X[i])[1] + i, 3 * Vec(X[i])[2] - i>>]

\* str(n) as the f-string of line 143 formats it.
Digits == <<"0", "1", "2", "3", "4", "5", "6", "7", "8", "9">>
RECURSIVE IntToStr(_)
IntToStr(n) == IF n < 10 THEN Digits[n + 1]
               ELSE IntToStr(n \div 10) \o Digits[(n % 10) + 1]

-----------------------------------------------------------------------------
(* main() *)

DataFiles == {"a.jsonl", "b.jsonl"}

\* load_dataset("json", data_files=[data_file], split="train"), line 73.
load_dataset(data_file) ==
    IF data_file = "a.jsonl" THEN <<Item1, Item2>> ELSE <<Item3>>

QueryStrings == {"sorting", "graphs"}
QueryInstructions == {None, "Represent the query"}

\* batch_size: int = field(default=32)
DefaultBatchSize == 32

SeqsUpTo(S, n) == UNION {[1..k -> S] : k \in 0..n}

\* Every Args the command line can parse into, lines 23-33 and 92.
Configs ==
    [data_files : SeqsUpTo(DataFiles, MaxFiles),
     instruction : Instructions,
     model_key : ModelKeys,
     embedding_mode : AnyModes,
     queries : SeqsUpTo(QueryStrings, MaxQueries),
     query_instruction : QueryInstructions,
     batch_size : {DefaultBatchSize},
     n_clusters : {NoInt} \cup {Int1(k) : k \in 1..MaxClusters}]

\* main() entered with the arguments parsed (line 92), the cache empty.
Init ==
    /\ cache = {}
    /\ encodeCalls = << >>   \* the empty bag
    /\ call = NoCall
    /\ returned = {}
    /\ ncalls = 0
    /\ args \in Configs
    /\ pc = "start" /\ method = None /\ model = None
    /\ all_datasets = << >> /\ all_embeddings = << >>
    /\ dataset = << >> /\ embeddings = << >> /\ labels = << >>
    /\ n_clusters = 0 /\ plot = << >> /\ err = None

Fail(kind) == pc' = "error" /\ err' = kind

\* Lines 93-99: the configuration assertions and the choice of method.
ChosenMethod(a) == IF Len(a.queries) = 0 THEN "cluster" ELSE "query"

ConfigAccepted(a) ==
    /\ Len(a.queries) # 0 \/ a.n_clusters # NoInt
    /\ IF ChosenMethod(a) = "query" THEN a.query_instruction # None
       ELSE a.n_clusters # NoInt

CheckArgs ==
    /\ pc = "start"
    /\ IF ConfigAccepted(args)
       THEN /\ method' = ChosenMethod(args)
            /\ pc' = "checked"
            /\ err' = err
       ELSE /\ method' = (IF Len(args.queries) # 0 \/ args.n_clusters # NoInt
                          THEN ChosenMethod(args) ELSE method)
            /\ Fail("AssertionError")
    /\ UNCHANGED <<cacheVars, args, model, all_datasets, all_embeddings, dataset,
                   embeddings, labels, n_clusters, plot>>

\* Line 101.
LoadModel ==
    /\ pc = "checked"
    /\ model' = args.model_key
    /\ pc' = "embedding"
    /\ UNCHANGED <<cacheVars, args, method, all_datasets, all_embeddings, dataset,
                   embeddings, labels, n_clusters, plot, err>>

\* One iteration of the loop of get_dataset_embeddings, lines 72-84.
EmbedFileWith(oracles) ==
    /\ pc = "embedding"
    /\ Len(all_datasets) < Len(args.data_files)
    /\ \E oracle \in oracles :
         LET data_file == args.data_files[Len(all_datasets) + 1]
             raw_dataset == load_dataset(data_file)
             req == Request(model, args.model_key, args.embedding_mode,
                            raw_dataset, args.instruction, args.batch_size)
             r == get_dataset_embedding(cache, model, args.model_key,
                                        args.embedding_mode, raw_dataset,
                                        args.instruction, args.batch_size, oracle)
         IN /\ all_datasets' = Append(all_datasets, raw_dataset)
            /\ cache' = r.cache
            /\ encodeCalls' = IF r.encoded THEN Counted(encodeCalls, req)
                              ELSE encodeCalls
            /\ returned' = IF r.ret.ok THEN returned \cup {<<req, r.ret.val>>}
                           ELSE returned
            /\ IF r.ret.ok
               THEN /\ all_embeddings' = Append(all_embeddings, r.ret.val)
                    /\ UNCHANGED <<pc, err>>
               ELSE /\ all_embeddings' = all_embeddings
                    /\ Fail(r.ret.raised)
    /\ UNCHANGED <<call, ncalls, args, method, model, dataset, embeddings, labels,
                   n_clusters, plot>>

EmbedFile == EmbedFileWith(Collaborators)
EmbedFileFaulty == EmbedFileWith(FaultyCollaborators)

\* concatenate_datasets / np.concatenate(axis=0): the parts in list order.
RECURSIVE Concatenate(_)
Concatenate(parts) ==
    IF parts = << >> THEN << >> ELSE Head(parts) \o Concatenate(Tail(parts))

\* Lines 86-88 and the unpacking of line 102. Both concatenations raise
\* ValueError on an empty list.
ConcatenateAll ==
    /\ pc = "embedding"
    /\ Len(all_datasets) = Len(args.data_files)
    /\ IF all_datasets = << >>
       THEN /\ Fail("ValueError")
            /\ UNCHANGED <<dataset, embeddings>>
       ELSE /\ dataset' = Concatenate(all_datasets)
            /\ embeddings' = Concatenate(all_embeddings)
            /\ pc' = "embedded"
            /\ err' = err
    /\ UNCHANGED <<cacheVars, args, method, model, all_datasets, all_embeddings,
                   labels, n_clusters, plot>>

\* The two assertions on the labels, lines 107-108 and 122-123
\* (max() and min() of an empty array raise).
LabelsAccepted(ls, n) ==
    /\ ls # << >>
    /\ SeqMax(ls) = n - 1
    /\ SeqMin(ls) = 0

\* Lines 103-109.
Cluster ==
    /\ pc = "embedded"
    /\ method = "cluster"
    /\ IF Len(embeddings) < args.n_clusters[1]
       THEN /\ Fail("ValueError")
            /\ UNCHANGED <<labels, n_clusters>>
       ELSE \E ls \in KMeansLabels(embeddings, args.n_clusters[1]) :
              /\ labels' = ls
              /\ IF LabelsAccepted(ls, args.n_clusters[1])
                 THEN /\ n_clusters' = args.n_clusters[1]
                      /\ pc' = "grouped"
                      /\ err' = err
                 ELSE /\ Fail("AssertionError")
                      /\ UNCHANGED n_clusters
    /\ UNCHANGED <<cacheVars, args, method, model, all_datasets, all_embeddings,
                   dataset, embeddings, plot>>

\* Lines 112-113: the query vectors, encoded once and never cached.
QueryEmbeddings ==
    Encode(model, [j \in 1..Len(args.queries) |->
                      <<args.query_instruction, args.queries[j]>>],
           args.batch_size, 0)

\* Lines 110-124.
NearestQuery ==
    /\ pc = "embedded"
    /\ method = "query"
    /\ LET ls == [i \in DOMAIN embeddings |->
                    get_label(embeddings[i], QueryEmbeddings)]
       IN /\ labels' = ls
          /\ IF LabelsAccepted(ls, Len(args.queries))
             THEN /\ n_clusters' = Len(args.queries)
                  /\ pc' = "grouped"
                  /\ err' = err
             ELSE /\ Fail(IF ls = << >> THEN "ValueError" ELSE "AssertionError")
                  /\ UNCHANGED n_clusters
    /\ UNCHANGED <<cacheVars, args, method, model, all_datasets, all_embeddings,
                   dataset, embeddings, plot>>

\* np.where(labels == label)[0].tolist(), line 126: the positions carrying the
\* label, ascending (1-based here, 0-based in numpy).
RECURSIVE WhereFrom(_, _, _)
WhereFrom(ls, label, i) ==
    IF i > Len(ls) THEN << >>
    ELSE (IF ls[i] = label THEN <<i>> ELSE << >>) \o WhereFrom(ls, label, i + 1)

IndicesAtLeast(ls, label) ==
    WhereFrom([i \in DOMAIN ls |-> IF ls[i] >= label THEN label ELSE ls[i]], label, 1)

Indices(ls, label) == WhereFrom(ls, label, 1)

\* xs.mean(): the exact mean, as numerator and denominator.
Mean(xs) == [num |-> SeqSum(xs), den |-> Len(xs)]

\* Line 143.
LegendLabel(m, queries, label) ==
    IF m = "cluster" THEN "Cluster " \o IntToStr(label + 1) ELSE queries[label + 1]

\* Lines 146-148: the marker of one iteration. xs, ys are all the points;
\* x, y are the points of the label.
CentroidOfSubset(xs, ys, x, y) ==
    [op |-> "scatter", x |-> Mean(x), y |-> Mean(y), marker |-> "x", s |-> 100]

CentroidMarker(xs, ys, x, y) ==
    [op |-> "scatter", x |-> Mean(xs), y |-> Mean(ys), marker |-> "x", s |-> 100]

\* The loop of lines 138-148 from `label` on: per label, its series and then
\* the marker.
RECURSIVE PlotLoop(_, _, _, _, _, _, _)
PlotLoop(label, n, ls, xs, ys, m, queries) ==
    IF label >= n THEN << >>
    ELSE LET indices_for_label == Indices(ls, label)
             x == [k \in DOMAIN indices_for_label |-> xs[indices_for_label[k]]]
             y == [k \in DOMAIN indices_for_label |-> ys[indices_for_label[k]]]
         IN << [op |-> "scatter", x |-> x, y |-> y,
                label |-> LegendLabel(m, queries, label)],
               CentroidMarker(xs, ys, x, y) >>
            \o PlotLoop(label + 1, n, ls, xs, ys, m, queries)

\* Lines 125-151.
Visualize ==
    /\ pc = "grouped"
    /\ LET vis_dims == TSNE(embeddings)
           xs == [i \in DOMAIN vis_dims |-> vis_dims[i][1]]
           ys == [i \in DOMAIN vis_dims |-> vis_dims[i][2]]
       IN plot' = plot
                  \o PlotLoop(0, n_clusters, labels, xs, ys, method, args.queries)
                  \o << [op |-> "legend"],
                        [op |-> "title", text |-> "Visualization of Clusters"],
                        [op |-> "savefig", file |-> "clusters.png"] >>
    /\ pc' = "done"
    /\ UNCHANGED <<cacheVars, args, method, model, all_datasets, all_embeddings,
                   dataset, embeddings, labels, n_clusters, err>>

Next ==
    \/ CheckArgs
    \/ LoadModel
    \/ EmbedFile
    \/ ConcatenateAll
    \/ Cluster
    \/ NearestQuery
    \/ Visualize

Spec == Init /\ [][Next]_vars

\* The same program with an encoder that may lose a row.
NextFaulty ==
    \/ CheckArgs
    \/ LoadModel
    \/ EmbedFileFaulty
    \/ ConcatenateAll
    \/ Cluster
    \/ NearestQuery
    \/ Visualize

SpecFaulty == Init /\ [][NextFaulty]_vars

-----------------------------------------------------------------------------
(* Properties *)

BothSupplied == Len(args.queries) # 0 /\ args.n_clusters # NoInt
NeitherSupplied == Len(args.queries) = 0 /\ args.n_clusters = NoInt

\* C1: when both a non-empty queries list and n_clusters are supplied, or
\* neither, main() ends in an error before the model is loaded; it goes on
\* only when exactly one of the two is supplied.
C1_ExactlyOneOrError ==
    (BothSupplied \/ NeitherSupplied) => (model = None /\ pc \in {"start", "error"})

\* C2: once the grouping step is passed, the labels in use are exactly
\* 0..n-1, without a gap.
C2_LabelsDense ==
    pc \in {"grouped", "done"} => Range(labels) = 0..(n_clusters - 1)

\* C3: a run whose embedding matrix and dataset differ in length never gets
\* to grouping or to the saved image.
C3_MismatchAborts ==
    pc \in {"grouped", "done"} => Len(embeddings) = Len(dataset)

\* The request's cache key as the contract states it.
KeyOf(req) == <<req.model_name, req.embedding_mode, req.dataset, req.instruction>>

\* The number of encode calls made for requests of the key.
RECURSIVE CountOver(_, _)
CountOver(bag, reqs) ==
    IF reqs = {} THEN 0
    ELSE LET r == CHOOSE q \in reqs : TRUE
         IN bag[r] + CountOver(bag, reqs \ {r})

EncodesOfKey(bag, key) == CountOver(bag, {r \in DOMAIN bag : KeyOf(r) = key})

C4_Step ==
    ncalls' = ncalls + 1 =>
       LET req == call'.req
           key == KeyOf(req)
           wasStored == \E e \in cache : e.key = key
       IN /\ wasStored =>
               /\ call'.ret.ok
               /\ \E e \in cache : e.key = key /\ call'.ret.val = e.val
               /\ encodeCalls' = encodeCalls
               /\ cache' = cache
          /\ (~wasStored /\ call'.ret.ok) =>
               /\ EncodesOfKey(encodeCalls', key) = 1
               /\ \A k \in {KeyOf(r) : r \in DOMAIN encodeCalls} :
                     EncodesOfKey(encodeCalls', k) = EncodesOfKey(encodeCalls, k)
               /\ cache' = cache \cup {[key |-> key, val |-> call'.ret.val]}
          /\ (~wasStored /\ ~call'.ret.ok) =>
               /\ encodeCalls' = encodeCalls
               /\ cache' = cache

C4_AtMostOncePerKey ==
    \A k \in {KeyOf(r) : r \in DOMAIN encodeCalls} : EncodesOfKey(encodeCalls, k) <= 1

\* C4: a get_dataset_embedding call whose key is stored returns the stored
\* matrix without calling encode; a call whose key is not stored and that
\* returns has called encode exactly once and stored what it returns under the
\* key (one that raises stores nothing and calls encode no further); encode
\* runs at most once per key.
C4_CacheHitMiss == [][C4_Step]_vars /\ []C4_AtMostOncePerKey

C4_Witness ==
    /\ ncalls = 2
    /\ call.ret.ok
    /\ call.ret.val # << >>
    /\ call.ret.val[1].bs # call.req.batch_size
    /\ EncodesOfKey(encodeCalls, KeyOf(call.req)) = 1

\* C5: two calls that agree on model name, mode, dataset and instruction
\* return the same matrix whatever their batch sizes, and the cache holds one
\* entry per distinct (model name, mode, dataset, instruction) that returned.
C5_BatchSizeIndependent ==
    /\ \A a \in returned, b \in returned : KeyOf(a[1]) = KeyOf(b[1]) => a[2] = b[2]
    /\ Cardinality(cache) = Cardinality({KeyOf(a[1]) : a \in returned})
    /\ \A e \in cache : \E a \in returned : e.key = KeyOf(a[1]) /\ e.val = a[2]

C5_Witness ==
    /\ \E a \in returned, b \in returned :
          /\ KeyOf(a[1]) = KeyOf(b[1])
          /\ a[1].batch_size # b[1].batch_size
          /\ a[1].model # b[1].model
          /\ a[2] # << >>
          /\ a[2] = b[2]
    /\ Cardinality(cache) = 1

TextOf(embedding_mode, example) ==
    CASE embedding_mode = "seed" -> example.seed
      [] embedding_mode = "problem" -> example.problem
      [] embedding_mode = "solution" -> example.solution
      [] embedding_mode = "problem-solution" ->
            FormatPrompt(example.problem, example.solution)

\* The number of items in the files before the k-th.
RECURSIVE ItemsBefore(_)
ItemsBefore(k) ==
    IF k = 1 THEN 0 ELSE ItemsBefore(k - 1) + Len(load_dataset(args.data_files[k - 1]))

\* C6: get_dataset_embeddings returns a dataset and a matrix of equal length,
\* the dataset being the files' items in file order and then in-file order and
\* row i of the matrix being the embedding of item i.
C6_Aligned ==
    pc \in {"embedded", "grouped", "done"} =>
       /\ Len(embeddings) = Len(dataset)
       /\ Len(dataset) = ItemsBefore(Len(args.data_files) + 1)
       /\ \A k \in DOMAIN args.data_files :
             \A j \in DOMAIN load_dataset(args.data_files[k]) :
                dataset[ItemsBefore(k) + j] = load_dataset(args.data_files[k])[j]
       /\ \A i \in DOMAIN dataset :
             /\ embeddings[i].pair =
                   <<args.instruction, TextOf(args.embedding_mode, dataset[i])>>
             /\ embeddings[i].model = args.model_key

C6_Witness ==
    /\ pc = "embedded"
    /\ Len(args.data_files) = 2
    /\ Len(dataset) = 4
    /\ Cardinality(cache) = 1

\* C7: a call with an embedding_mode outside the four modes raises the
\* configuration error (the assertion of map_fn), has called encode for
\* nothing and stored nothing, whatever the dataset.
C7_BogusModeFailsFast ==
    /\ call.made /\ call.req.embedding_mode \notin EmbeddingModes =>
          ~call.ret.ok /\ call.ret.raised = "AssertionError"
    /\ \A r \in DOMAIN encodeCalls : r.embedding_mode \in EmbeddingModes
    /\ \A e \in cache : e.key[2] \in EmbeddingModes

QueryVector(j) ==
    Embed(args.model_key, <<args.query_instruction, args.queries[j + 1]>>)

\* C8: in the nearest-query strategy the label of an item is the index of a
\* query of highest cosine similarity to it, the lowest such index.
C8_NearestQuery ==
    (method = "query" /\ labels # << >>) =>
       \A i \in DOMAIN labels :
          LET e == Vec(embeddings[i])
          IN /\ labels[i] \in 0..(Len(args.queries) - 1)
             /\ \A j \in 0..(Len(args.queries) - 1) :
                   /\ ~CosLess(e, QueryVector(labels[i]), QueryVector(j))
                   /\ j < labels[i] => CosLess(e, QueryVector(j), QueryVector(labels[i]))

C8_Witness ==
    /\ pc = "grouped"
    /\ method = "query"
    /\ \E i \in DOMAIN labels, j \in 0..(Len(args.queries) - 1) :
          /\ j > labels[i]
          /\ QueryVector(j) # QueryVector(labels[i])
          /\ ~CosLess(Vec(embeddings[i]), QueryVector(j), QueryVector(labels[i]))

Series == SelectSeq(plot, LAMBDA d : d.op = "scatter" /\ "label" \in DOMAIN d)

ItemsOf(label) == {i \in DOMAIN labels : labels[i] = label}
NthOf(S, m) == CHOOSE i \in S : Cardinality({j \in S : j < i}) = m - 1

ClusterLegends == <<"Cluster 1", "Cluster 2", "Cluster 3", "Cluster 4", "Cluster 5">>

\* C9: a completed run plots exactly n series, for the labels 0..n-1 in
\* order; series k holds exactly the 2D points of the items labelled k (every
\* item in exactly one series) and is named "Cluster {k+1}" or by query k.
C9_SeriesPerLabel ==
    pc = "done" =>
       /\ Len(Series) = n_clusters
       /\ SeqSum([k \in DOMAIN Series |-> Len(Series[k].x)]) = Len(labels)
       /\ \A k \in 0..(n_clusters - 1) :
             LET d == Series[k + 1]
             IN /\ Len(d.x) = Cardinality(ItemsOf(k))
                /\ Len(d.y) = Cardinality(ItemsOf(k))
                /\ \A m \in 1..Len(d.x) :
                      <<d.x[m], d.y[m]>> = TSNE(embeddings)[NthOf(ItemsOf(k), m)]
                /\ d.label = IF method = "cluster" THEN ClusterLegends[k + 1]
                             ELSE args.queries[k + 1]

C9_Witness ==
    /\ pc = "done"
    /\ method = "query"
    /\ n_clusters >= 2
    /\ \A k \in 0..(n_clusters - 1) : ItemsOf(k) # {}

SameMean(m, total, count) == m.num * count = total * m.den /\ m.den # 0

AllXs == [i \in DOMAIN embeddings |-> TSNE(embeddings)[i][1]]
AllYs == [i \in DOMAIN embeddings |-> TSNE(embeddings)[i][2]]

\* C10: a completed run emits exactly n centroid markers, one right after
\* each label's series, each at the mean of all the 2D points; the image is
\* saved once, as the last call after the last marker.
C10_GlobalCentroids ==
    pc = "done" =>
       /\ Len(plot) = 2 * n_clusters + 3
       /\ \A k \in 1..n_clusters :
             /\ "label" \in DOMAIN plot[2 * k - 1]
             /\ "marker" \in DOMAIN plot[2 * k]
             /\ plot[2 * k].op = "scatter" /\ plot[2 * k].marker = "x"
             /\ SameMean(plot[2 * k].x, SeqSum(AllXs), Len(embeddings))
             /\ SameMean(plot[2 * k].y, SeqSum(AllYs), Len(embeddings))
       /\ Cardinality({i \in DOMAIN plot : "marker" \in DOMAIN plot[i]}) = n_clusters
       /\ plot[Len(plot)] = [op |-> "savefig", file |-> "clusters.png"]
       /\ Cardinality({i \in DOMAIN plot : plot[i].op = "savefig"}) = 1

C10_Witness ==
    /\ pc = "done"
    /\ method = "cluster"
    /\ n_clusters >= 2
    /\ \E k \in 1..n_clusters :
          /\ plot[2 * k - 1].x # << >>
          /\ ~SameMean(plot[2 * k].x, SeqSum(plot[2 * k - 1].x), Len(plot[2 * k - 1].x))

====
